---- MODULE Spec2Model ----
(***************************************************************************)
(* A model of pie-grep (src/src/lib.rs): Config::new, run, search and      *)
(* search_case_insensitive.                                                *)
(*                                                                         *)
(* A string is a sequence of characters; a character is one of the tokens  *)
(* of Alphabet (or, after lowercasing, "sigma" / "final_sigma").           *)
(*   "LF" = U+000A, "CR" = U+000D, "a", "A", "Sigma" = U+03A3,             *)
(*   "'"  = U+0027 (a Case_Ignorable, uncased character).                  *)
(* Standard output is assumed writable (println! does not panic).          *)
(***************************************************************************)
EXTENDS Integers, Sequences, FiniteSets, TLC

VARIABLES
    args,        \* the argument list handed to Config::new
    env,         \* the CASE_INSENSITIVE entry of the process environment
    file,        \* what reading the file named by the configuration yields
    pc,          \* the position of the execution
    cfgResult,   \* the Result of Config::new
    contents,    \* the local `contents` of run
    results,     \* the Vec returned by the search variant
    scanned,     \* the items the search loop took from contents.lines()
    calls,       \* the search functions invoked so far, in order
    next,        \* the index of the next element the print loop takes
    stdout,      \* the lines written to standard output, in order
    reads,       \* the paths handed to fs::read_to_string so far
    runResult,   \* the Result of run
    input        \* the (query, contents) of a direct call of a search function

vars == <<args, env, file, pc, cfgResult, contents, results, scanned, calls,
          next, stdout, reads, runResult, input>>

----------------------------------------------------------------------------
(* Bounds *)

MaxContentsLen == 3
MaxQueryLen == 2
MaxFileLen == 3
MaxArgLen == 1

----------------------------------------------------------------------------
(* Characters and strings *)

LF == "LF"
CR == "CR"

Alphabet == {LF, CR, "a", "A", "Sigma", "'"}

Str(n) == UNION {[1..k -> Alphabet] : k \in 0..n}

RECURSIVE Flatten(_)
Flatten(ss) == IF ss = <<>> THEN <<>> ELSE Head(ss) \o Flatten(Tail(ss))

Reverse(s) == [i \in 1..Len(s) |-> s[Len(s) + 1 - i]]

\* core::unicode::Cased and Case_Ignorable, restricted to the characters used
Cased(c) == c \in {"a", "A", "Sigma", "sigma", "final_sigma"}
Case_Ignorable(c) == c \in {"'"}

\* core::unicode::conversions::to_lower: the context-free lowercase mapping
to_lower(c) == IF c = "A" THEN <<"a">> ELSE <<c>>

\* iter.skip_while(Case_Ignorable).next() is Some(c) with Cased(c)
case_ignorable_then_cased(iter) ==
    \E k \in 1..Len(iter) :
        /\ \A j \in 1..(k - 1) : Case_Ignorable(iter[j])
        /\ ~Case_Ignorable(iter[k])
        /\ Cased(iter[k])

\* Final_Sigma: preceded by a cased letter and not followed by one
map_uppercase_sigma(from, i) ==
    LET is_word_final ==
            /\ case_ignorable_then_cased(Reverse(SubSeq(from, 1, i - 1)))
            /\ ~case_ignorable_then_cased(SubSeq(from, i + 1, Len(from)))
    IN  IF is_word_final THEN "final_sigma" ELSE "sigma"

\* str::to_lowercase
to_lowercase(s) ==
    Flatten([i \in 1..Len(s) |->
                IF s[i] = "Sigma" THEN <<map_uppercase_sigma(s, i)>>
                                  ELSE to_lower(s[i])])

\* a mutant of contains: an empty pattern matches nothing
contains_nonempty(hay, needle) ==
    /\ needle # <<>>
    /\ \E i \in 0..(Len(hay) - Len(needle)) :
          SubSeq(hay, i + 1, i + Len(needle)) = needle

\* str::contains with a &str pattern
contains(hay, needle) ==
    \E i \in 0..(Len(hay) - Len(needle)) :
        SubSeq(hay, i + 1, i + Len(needle)) = needle

\* str::split_inclusive('\n'): each piece keeps its terminating LF; the empty
\* string has no pieces and a final LF opens no empty piece
RECURSIVE split_inclusive(_)
split_inclusive(s) ==
    IF s = <<>> THEN <<>>
    ELSE LET nl == {i \in 1..Len(s) : s[i] = LF}
         IN  IF nl = {} THEN <<s>>
             ELSE LET k == CHOOSE i \in nl : \A j \in nl : i <= j
                  IN  <<SubSeq(s, 1, k)>> \o split_inclusive(SubSeq(s, k + 1, Len(s)))

\* a mutant of LinesMap: only the LF is stripped
LinesMap_keep_cr(line) ==
    IF line # <<>> /\ line[Len(line)] = LF
    THEN SubSeq(line, 1, Len(line) - 1)
    ELSE line

\* LinesMap: strip_suffix('\n'), then strip_suffix('\r')
LinesMap(line) ==
    IF line # <<>> /\ line[Len(line)] = LF
    THEN LET l1 == SubSeq(line, 1, Len(line) - 1)
         IN  IF l1 # <<>> /\ l1[Len(l1)] = CR
             THEN SubSeq(l1, 1, Len(l1) - 1)
             ELSE l1
    ELSE line

\* str::lines
lines(s) == LET ps == split_inclusive(s) IN [i \in 1..Len(ps) |-> LinesMap(ps[i])]

----------------------------------------------------------------------------
(* The search engine *)

\* the for loop of search: ls is what is left of contents.lines()
RECURSIVE search_loop(_, _, _)
search_loop(query, ls, acc) ==
    IF ls = <<>> THEN acc
    ELSE search_loop(query, Tail(ls),
                     IF contains(Head(ls), query) THEN Append(acc, Head(ls)) ELSE acc)

\* a mutant of search: the first match ends the loop
RECURSIVE search_first_loop(_, _)
search_first_loop(query, ls) ==
    IF ls = <<>> THEN <<>>
    ELSE IF contains(Head(ls), query) THEN <<Head(ls)>>
         ELSE search_first_loop(query, Tail(ls))

search_first(query, contents_) == search_first_loop(query, lines(contents_))

search(query, contents_) == search_loop(query, lines(contents_), <<>>)

\* the for loop of search_case_insensitive: query is already lowercased
RECURSIVE search_ci_loop(_, _, _)
search_ci_loop(query, ls, acc) ==
    IF ls = <<>> THEN acc
    ELSE search_ci_loop(query, Tail(ls),
                        IF contains(to_lowercase(Head(ls)), query)
                        THEN Append(acc, Head(ls)) ELSE acc)

\* a mutant of search_case_insensitive: the lowercased line is pushed
RECURSIVE search_ci_lowered_loop(_, _, _)
search_ci_lowered_loop(query, ls, acc) ==
    IF ls = <<>> THEN acc
    ELSE search_ci_lowered_loop(query, Tail(ls),
                        IF contains(to_lowercase(Head(ls)), query)
                        THEN Append(acc, to_lowercase(Head(ls))) ELSE acc)

search_ci_lowered(query, contents_) ==
    search_ci_lowered_loop(to_lowercase(query), lines(contents_), <<>>)

search_case_insensitive(query, contents_) ==
    search_ci_loop(to_lowercase(query), lines(contents_), <<>>)

----------------------------------------------------------------------------
(* The environment of one execution *)

ProgName == <<"a">>
FileNames == {<<"a">>, <<"A">>}
ExtraArg == <<"'">>

\* lists of 0, 1, 2, 3 and 4 entries
ArgLists ==
    {<<>>, <<ProgName>>}
    \cup {<<ProgName, q>> : q \in FileNames}
    \cup {<<ProgName, q, f>> : q \in Str(MaxArgLen), f \in FileNames}
    \cup {<<ProgName, q, ProgName, ExtraArg>> : q \in Str(MaxArgLen)}

\* CASE_INSENSITIVE: absent, present with valid Unicode, or present with a
\* value that is not valid Unicode
EnvStates ==
    {[set |-> FALSE, unicode |-> TRUE, value |-> <<>>],
     [set |-> TRUE, unicode |-> TRUE, value |-> <<>>],
     [set |-> TRUE, unicode |-> TRUE, value |-> <<"a">>],
     [set |-> TRUE, unicode |-> FALSE, value |-> <<>>]}

ReadErrors == {"NotFound", "PermissionDenied", "InvalidData"}

FileStates ==
    {[kind |-> "Ok", data |-> d] : d \in Str(MaxFileLen)}
    \cup {[kind |-> k, data |-> <<>>] : k \in ReadErrors}

\* std::env::var
env_var(e) ==
    IF ~e.set THEN [ok |-> FALSE, err |-> "NotPresent", value |-> <<>>]
    ELSE IF ~e.unicode THEN [ok |-> FALSE, err |-> "NotUnicode", value |-> <<>>]
    ELSE [ok |-> TRUE, err |-> "", value |-> e.value]

NotCalled == [tag |-> "NotCalled", err |-> "", config |-> <<>>]
Err(e) == [tag |-> "Err", err |-> e, config |-> <<>>]
OkConfig(c) == [tag |-> "Ok", err |-> "", config |-> <<c>>]
OkUnit == [tag |-> "Ok", err |-> "", config |-> <<>>]

config == cfgResult.config[1]

NoInput == [query |-> <<>>, contents |-> <<>>]

Init ==
    /\ args \in ArgLists
    /\ env \in EnvStates
    /\ file \in FileStates
    /\ pc = "Start"
    /\ cfgResult = NotCalled
    /\ contents = <<>>
    /\ results = <<>>
    /\ scanned = <<>>
    /\ calls = <<>>
    /\ next = 1
    /\ stdout = <<>>
    /\ reads = <<>>
    /\ runResult = NotCalled
    /\ input = NoInput

----------------------------------------------------------------------------
(* Config::new *)

\* a mutant of ConfigNew: the length test is off by one
ConfigNew_len2 ==
    /\ pc = "Start"
    /\ IF Len(args) < 2
       THEN /\ cfgResult' = Err("not enough arguments")
            /\ pc' = "ConfigFailed"
       ELSE /\ cfgResult' = OkConfig([query |-> args[2],
                                      filename |-> IF Len(args) < 3 THEN <<>> ELSE args[3],
                                      case_sensitive |-> ~env_var(env).ok])
            /\ pc' = "ConfigResolved"
    /\ UNCHANGED <<args, env, file, contents, results, scanned, calls, next,
                   stdout, reads, runResult, input>>

ConfigNew ==
    /\ pc = "Start"
    /\ IF Len(args) < 3
       THEN /\ cfgResult' = Err("not enough arguments")
            /\ pc' = "ConfigFailed"
       ELSE /\ cfgResult' = OkConfig([query |-> args[2],
                                      filename |-> args[3],
                                      case_sensitive |-> ~env_var(env).ok])
            /\ pc' = "ConfigResolved"
    /\ UNCHANGED <<args, env, file, contents, results, scanned, calls, next,
                   stdout, reads, runResult, input>>

----------------------------------------------------------------------------
(* run *)

\* a mutant of RunRead: a failed read is taken as an empty file
RunRead_or_default ==
    /\ pc = "ConfigResolved"
    /\ reads' = Append(reads, config.filename)
    /\ contents' = file.data
    /\ pc' = "FileRead"
    /\ UNCHANGED <<args, env, file, cfgResult, results, scanned, calls, next,
                   stdout, runResult, input>>

\* a mutant of RunRead: a failed read is tried once more
RunRead_retry ==
    /\ pc = "ConfigResolved"
    /\ reads' = Append(reads, config.filename)
    /\ IF file.kind = "Ok"
       THEN /\ contents' = file.data
            /\ pc' = "FileRead"
            /\ UNCHANGED runResult
       ELSE IF reads = <<>>
       THEN UNCHANGED <<contents, pc, runResult>>
       ELSE /\ runResult' = Err(file.kind)
            /\ pc' = "ReadFailed"
            /\ UNCHANGED contents
    /\ UNCHANGED <<args, env, file, cfgResult, results, scanned, calls, next,
                   stdout, input>>

\* let contents = fs::read_to_string(config.filename)?;
RunRead ==
    /\ pc = "ConfigResolved"
    /\ reads' = Append(reads, config.filename)
    /\ IF file.kind = "Ok"
       THEN /\ contents' = file.data
            /\ pc' = "FileRead"
            /\ UNCHANGED runResult
       ELSE /\ runResult' = Err(file.kind)
            /\ pc' = "ReadFailed"
            /\ UNCHANGED contents
    /\ UNCHANGED <<args, env, file, cfgResult, results, scanned, calls, next,
                   stdout, input>>

\* a mutant of RunSelect: the flag is not consulted
RunSelect_always_sensitive ==
    /\ pc = "FileRead"
    /\ results' = search(config.query, contents)
    /\ calls' = Append(calls, "search")
    /\ scanned' = lines(contents)
    /\ next' = 1
    /\ pc' = "Searched"
    /\ UNCHANGED <<args, env, file, cfgResult, contents, stdout, reads,
                   runResult, input>>

\* let results = if config.case_sensitive { search(..) } else { search_case_insensitive(..) };
RunSelect ==
    /\ pc = "FileRead"
    /\ IF config.case_sensitive
       THEN /\ results' = search(config.query, contents)
            /\ calls' = Append(calls, "search")
       ELSE /\ results' = search_case_insensitive(config.query, contents)
            /\ calls' = Append(calls, "search_case_insensitive")
    /\ scanned' = lines(contents)
    /\ next' = 1
    /\ pc' = "Searched"
    /\ UNCHANGED <<args, env, file, cfgResult, contents, stdout, reads,
                   runResult, input>>

\* one iteration of: for line in results { println!("{}", line); }
RunPrintLine ==
    /\ pc = "Searched"
    /\ next <= Len(results)
    /\ stdout' = Append(stdout, results[next])
    /\ next' = next + 1
    /\ UNCHANGED <<args, env, file, pc, cfgResult, contents, results, scanned,
                   calls, reads, runResult, input>>

\* the iterator of the print loop is exhausted
RunLoopEnd ==
    /\ pc = "Searched"
    /\ next > Len(results)
    /\ pc' = "Printed"
    /\ UNCHANGED <<args, env, file, cfgResult, contents, results, scanned,
                   calls, next, stdout, reads, runResult, input>>

\* Ok(())
RunReturn ==
    /\ pc = "Printed"
    /\ runResult' = OkUnit
    /\ pc' = "Done"
    /\ UNCHANGED <<args, env, file, cfgResult, contents, results, scanned,
                   calls, next, stdout, reads, input>>

Next ==
    \/ ConfigNew
    \/ RunRead
    \/ RunSelect
    \/ RunPrintLine
    \/ RunLoopEnd
    \/ RunReturn

Spec == Init /\ [][Next]_vars

----------------------------------------------------------------------------
(* Direct calls of the two search functions, as the tests make them *)

InitSearch ==
    /\ input \in [query : Str(MaxQueryLen), contents : Str(MaxContentsLen)]
    /\ args = <<>>
    /\ env = [set |-> FALSE, unicode |-> TRUE, value |-> <<>>]
    /\ file = [kind |-> "NotFound", data |-> <<>>]
    /\ pc = "Idle"
    /\ cfgResult = NotCalled
    /\ contents = <<>>
    /\ results = <<>>
    /\ scanned = <<>>
    /\ calls = <<>>
    /\ next = 1
    /\ stdout = <<>>
    /\ reads = <<>>
    /\ runResult = NotCalled

CallSearch ==
    /\ pc = "Idle"
    /\ results' = search(input.query, input.contents)
    /\ scanned' = lines(input.contents)
    /\ calls' = Append(calls, "search")
    /\ pc' = "Returned"
    /\ UNCHANGED <<args, env, file, cfgResult, contents, next, stdout, reads,
                   runResult, input>>

CallSearchCaseInsensitive ==
    /\ pc = "Idle"
    /\ results' = search_case_insensitive(input.query, input.contents)
    /\ scanned' = lines(input.contents)
    /\ calls' = Append(calls, "search_case_insensitive")
    /\ pc' = "Returned"
    /\ UNCHANGED <<args, env, file, cfgResult, contents, next, stdout, reads,
                   runResult, input>>

NextSearch ==
    \/ CallSearch
    \/ CallSearchCaseInsensitive

SpecSearch == InitSearch /\ [][NextSearch]_vars

----------------------------------------------------------------------------
(* Vocabulary of the properties, stated without the loops of the code *)

\* needle occurs in hay at some offset, element by element
Occurs(needle, hay) ==
    \E k \in 1..(Len(hay) + 1) :
        \A j \in 1..Len(needle) :
            k + j - 1 <= Len(hay) /\ hay[k + j - 1] = needle[j]

\* the members of a set of indices, in increasing order
Ordered(S) ==
    [k \in 1..Cardinality(S) |->
        CHOOSE i \in S : Cardinality({j \in S : j < i}) = k - 1]

\* the elements of L at the indices idx, in the order of L
Pick(L, idx) == LET o == Ordered(idx) IN [k \in 1..Len(o) |-> L[o[k]]]

\* the positions where a line of s begins: position 1 and after every LF
LineStarts(s) == {st \in 1..Len(s) : st = 1 \/ s[st - 1] = LF}

\* the position of the first LF at or after st, or Len(s) + 1
TermAt(s, st) ==
    LET nl == {p \in st..Len(s) : s[p] = LF}
    IN  IF nl = {} THEN Len(s) + 1 ELSE CHOOSE p \in nl : \A r \in nl : p <= r

\* lines when LF alone is the delimiter
NewlineSplit(s) ==
    LET o == Ordered(LineStarts(s))
    IN  [k \in 1..Len(o) |-> SubSeq(s, o[k], TermAt(s, o[k]) - 1)]

\* lines when the terminator is LF or CR LF
TerminatorSplit(s) ==
    LET o == Ordered(LineStarts(s))
        end(st) == LET t == TermAt(s, st)
                   IN  IF t <= Len(s) /\ t - 1 >= st /\ s[t - 1] = CR
                       THEN t - 2 ELSE t - 1
    IN  [k \in 1..Len(o) |-> SubSeq(s, o[k], end(o[k]))]

RECURSIVE IsSubseq(_, _)
IsSubseq(a, b) ==
    IF a = <<>> THEN TRUE
    ELSE IF b = <<>> THEN FALSE
    ELSE IF Head(a) = Head(b) THEN IsSubseq(Tail(a), Tail(b))
    ELSE IsSubseq(a, Tail(b))

Returned(f) == pc = "Returned" /\ calls = <<f>>

----------------------------------------------------------------------------
(* C1 *)

\* C1 (as stated): search returns exactly the lines of contents, contents
\* being split on newline alone, that contain query, in file order and with
\* the multiplicity of the file.
C1_NewlineOnly ==
    Returned("search") =>
        LET L == NewlineSplit(input.contents)
        IN  results = Pick(L, {i \in 1..Len(L) : Occurs(input.query, L[i])})

\* C1 (amended): search returns exactly the lines of contents, a line ending
\* at LF or CR LF with the terminator excluded, that contain query as an
\* exact case-sensitive substring, in file order and with the multiplicity
\* of the file.
C1_SearchExact ==
    Returned("search") =>
        LET L == TerminatorSplit(input.contents)
        IN  results = Pick(L, {i \in 1..Len(L) : Occurs(input.query, L[i])})

C1_Witness ==
    /\ Returned("search")
    /\ input.query = <<"a">>
    /\ input.contents = <<"a", LF, "a">>
    /\ results = << <<"a">>, <<"a">> >>

----------------------------------------------------------------------------
(* C2 *)

\* C2: search_case_insensitive returns, in file order, exactly the lines
\* whose lowercased form contains the lowercased query, each as its original
\* text.
C2_CaseInsensitiveExact ==
    Returned("search_case_insensitive") =>
        LET L == TerminatorSplit(input.contents)
            q == to_lowercase(input.query)
        IN  results = Pick(L, {i \in 1..Len(L) : Occurs(q, to_lowercase(L[i]))})

C2_Witness ==
    /\ Returned("search_case_insensitive")
    /\ input.query = <<"a">>
    /\ input.contents = <<"A", LF, "a">>
    /\ results = << <<"A">>, <<"a">> >>

----------------------------------------------------------------------------
(* C8 *)

\* C8: with the empty query both search functions return every line of
\* contents, in order, empty lines included; with empty contents they return
\* the empty sequence.
C8_EmptyQueryAllLines ==
    (pc = "Returned" /\ input.query = <<>>) =>
        /\ results = TerminatorSplit(input.contents)
        /\ input.contents = <<>> => results = <<>>

C8_Witness ==
    /\ pc = "Returned"
    /\ input.query = <<>>
    /\ input.contents = <<"a", LF, LF>>
    /\ results = << <<"a">>, <<>> >>

----------------------------------------------------------------------------
(* C9 *)

\* C9 (as stated): the lines both search functions scan are the runs of
\* contents between LF delimiters, nothing but the LF removed, with no extra
\* empty line after a trailing LF.
C9_NewlineOnlyDelimiter ==
    pc = "Returned" => scanned = NewlineSplit(input.contents)

\* C9 (amended): the lines both search functions scan are the maximal runs
\* of contents between terminators, a terminator being LF or CR LF; nothing
\* but the terminator is removed, a trailing terminator yields no extra empty
\* line, and internal empty lines are kept.
C9_LinesSplit ==
    pc = "Returned" => scanned = TerminatorSplit(input.contents)

C9_Witness ==
    /\ pc = "Returned"
    /\ input.contents = <<LF, CR, LF>>
    /\ scanned = << <<>>, <<>> >>

----------------------------------------------------------------------------
(* C10 *)

\* C10: what search returns is a subsequence of what
\* search_case_insensitive returns for the same query and contents.
C10_SensitiveWithinInsensitive ==
    Returned("search") =>
        IsSubseq(results, search_case_insensitive(input.query, input.contents))

----------------------------------------------------------------------------
(* C3 *)

\* C3: Config::new fails with "not enough arguments" exactly when the list
\* has fewer than 3 entries, and then yields no Config, reads no file and
\* prints nothing; otherwise it yields query = args[1], filename = args[2]
\* (0-based).
C3_MissingArgument ==
    /\ pc = "Start" => cfgResult = NotCalled
    /\ pc # "Start" =>
          IF Len(args) < 3
          THEN /\ cfgResult = Err("not enough arguments")
               /\ pc = "ConfigFailed"
               /\ reads = <<>>
               /\ stdout = <<>>
          ELSE /\ cfgResult.tag = "Ok"
               /\ config.query = args[2]
               /\ config.filename = args[3]

C3_Witness ==
    /\ pc = "ConfigFailed"
    /\ Len(args) = 2
    /\ cfgResult.config = <<>>

----------------------------------------------------------------------------
(* C4 *)

\* C4: in every Config produced, case_sensitive is false exactly when
\* CASE_INSENSITIVE is set, whatever its value.
C4_PresenceDecides ==
    cfgResult.tag = "Ok" => (config.case_sensitive = FALSE <=> env.set)

----------------------------------------------------------------------------
(* C5 *)

\* C5: a failed read makes run return the error of the read with nothing
\* printed and no search made, and whatever is printed is printed after a
\* complete, successful read.
C5_NoOutputOnReadFailure ==
    /\ (reads # <<>> /\ file.kind # "Ok") =>
          /\ pc = "ReadFailed"
          /\ runResult = Err(file.kind)
          /\ stdout = <<>>
          /\ calls = <<>>
    /\ stdout # <<>> =>
          /\ file.kind = "Ok"
          /\ reads = <<config.filename>>
          /\ contents = file.data

C5_Witness ==
    /\ pc = "ReadFailed"
    /\ file.kind = "InvalidData"
    /\ runResult = Err("InvalidData")
    /\ stdout = <<>>

----------------------------------------------------------------------------
(* C6 *)

Selected == IF config.case_sensitive THEN "search" ELSE "search_case_insensitive"

Expected ==
    LET L == TerminatorSplit(file.data)
    IN  IF config.case_sensitive
        THEN Pick(L, {i \in 1..Len(L) : Occurs(config.query, L[i])})
        ELSE Pick(L, {i \in 1..Len(L) :
                         Occurs(to_lowercase(config.query), to_lowercase(L[i]))})

----------------------------------------------------------------------------
(* C7 *)

PipelineEdges ==
    {<<"Start", "ConfigResolved">>, <<"Start", "ConfigFailed">>,
     <<"ConfigResolved", "FileRead">>, <<"ConfigResolved", "ReadFailed">>,
     <<"FileRead", "Searched">>, <<"Searched", "Searched">>,
     <<"Searched", "Printed">>, <<"Printed", "Done">>}

====
